---- MODULE Spec2Model ----
(***************************************************************************)
(* Model of Antigravity-Link: the CDP connection manager (CDPController)   *)
(* and the input injector (InputInjector).                                 *)
(*                                                                         *)
(* Spec        : CDPController -- connect / send / disconnect and the four *)
(*               transport event handlers (open, message, close, error).   *)
(* SpecReply   : InputInjector.waitForReply over an abstract page.         *)
(* SpecSend    : InputInjector.waitForIdle / setText / clickSend / sendText*)
(*               over the same page.                                       *)
(* SpecGateway : the LinkServer handlers of concurrent requests.           *)
(* SpecBridge  : ensureBridge, probe and injection as separate steps, for  *)
(*               concurrent callers.                                       *)
(* SpecLive, SpecReplyLive : Spec and waitForReply with the fairness of    *)
(*               timers, awaited calls and sleeps.                         *)
(***************************************************************************)
EXTENDS Integers, Sequences, FiniteSets, TLC

\* ------------------------------------------------------------------ bounds
MaxCalls == 2        \* send() calls that get an id in one run
MaxTransports == 2   \* WebSocket objects created in one run

Calls == 1..MaxCalls
Transports == 1..MaxTransports
Pages == {1}                    \* page objects with a webSocketDebuggerUrl
NoPage == 0                     \* null page / a page object without the url
Vals == {"v1", "v2"}            \* payloads of result frames, messages of error frames

VARIABLES
    \* ---- CDPController fields
    ws,            \* this.ws: 0 (null) or the current transport
    messageId,     \* this.messageId
    pending,       \* keys of this.pending
    _connected,    \* this._connected
    _page,         \* this._page: NoPage (null) or a page
    \* ---- the WebSocket objects and what their handlers close over
    sock,          \* readyState of every transport ("NONE": not created yet)
    sockPage,      \* the `page` argument captured by a transport's 'open' handler
                   \* (NoPage once the transport can no longer open)
    connectP,      \* the promise returned by the connect() that made the transport
    \* ---- the promise and the timer that send() creates for an id
    promise,       \* [st, val] of the promise returned by send()
    timer,         \* TRUE while the setTimeout of the call is armed
    \* ---- observers
    settleCount,   \* times resolve/reject of a call's promise were invoked
    removeCount,   \* times a call's entry left the pending map
    issued,        \* ids in the order send() assigned them
    sent,          \* request frames in the order ws.send() emitted them
    lastCall,      \* how the latest step ended when it was a call that can fail at once:
                   \* send() rejecting, connect() throwing, connect() creating a transport
                   \* (with the controller state it was entered in); "-" after any other step
    \* ---- the page that the bridge reads, and the CDP link the injector uses
    sendVisible,   \* a visible Send button in the agent panel (the idle indicator)
    hasError,      \* an error banner in #conversation
    botText,       \* trimmed text of the last visible bot element ("" when none)
    botCount,      \* number of visible bot elements
    bridge,        \* window.__remoteBridge of version 2 exists
    cdpUp,         \* cdp.evaluate() can succeed (FALSE: it rejects)
    \* ---- InputInjector.waitForReply(timeout, pollInterval)
    pc,            \* position in waitForReply
    now,           \* Date.now(), in ms
    start,         \* const start
    wTimeout,      \* parameter timeout
    wPoll,         \* parameter pollInterval
    beforeCount,   \* const beforeCount
    elapsed,       \* const elapsed of the current tick
    outcome,       \* what waitForReply returned, or that it threw
    reads,         \* observer: what the current tick read at line 138 (first),
                   \* line 141 (recheck) and lines 144-151 (content)
    sawBusy,       \* observer: phase 1 of waitForReply left its loop by `break`
    probeFailures, \* observer: rejected probes that isBridgeAlive turned into `false`
    \* ---- InputInjector.waitForIdle / setText / clickSend / sendText
    op,            \* the operation the caller invoked ("none" before the call)
    retries,       \* parameter retries of clickSend
    attempt,       \* let attempt
    log,           \* observer: the calls that reached the page, in order
    ret,           \* what the last completed sub-operation returned
    editor,        \* the page shows the Lexical editor
    \* ---- LinkServer: the handlers of /api/send and of the ws action 'send'
    gpc,           \* position of every request's handler ("none": not arrived)
    via,           \* how the request arrived: "http" or "ws"
    what,          \* the operation the request asks for
    answer,        \* the response: its top-level `success`, the `success` of the
                   \* InputInjector result behind it, and whether it has been sent
    editorText,    \* whose texts the editor holds, in the order of insertion
    submitted,     \* the user messages the page has sent to the agent
    busy,          \* the agent is working: no Send button
    \* ---- ensureBridge step by step: isBridgeAlive, then injectBridge
    foreign,       \* window.__remoteBridge exists with another _version
    installs,      \* times BRIDGE_SCRIPT assigned window.__remoteBridge since the page loaded
    epc,           \* position of every caller of ensureBridge
    probed,        \* what isBridgeAlive gave the caller
    injected       \* how the caller's injection call ended

cvars == <<ws, messageId, pending, _connected, _page, sock, sockPage, connectP,
           promise, timer, settleCount, removeCount, issued, sent, lastCall>>
pvars == <<sendVisible, hasError, botText, botCount, bridge, cdpUp>>
wvars == <<pc, now, start, wTimeout, wPoll, beforeCount, elapsed, outcome, reads>>
hvars == <<sawBusy, probeFailures>>
svars == <<op, retries, attempt, log, ret, editor>>
xvars == <<hvars, svars>>
gvars == <<gpc, via, what, answer, editorText, submitted, busy>>
bvars == <<foreign, installs, epc, probed, injected>>
ivars == <<pvars, wvars, xvars, gvars, bvars>>
vars == <<cvars, ivars>>

Unset == [st |-> "none", val |-> ""]

\* a getter that trusts the flag and ignores the socket's readyState
connectedFlagOnly == _connected /\ ws # 0

\* get connected()
connected == _connected /\ ws # 0 /\ sock[ws] = "OPEN"

Snapshot == [ws |-> ws, connected |-> connected, page |-> _page, pending |-> pending]
NoSnapshot == [ws |-> 0, connected |-> FALSE, page |-> NoPage, pending |-> {}]
Op(name) == [op |-> "-", pre |-> NoSnapshot]
FailOp(name) == [op |-> name, pre |-> NoSnapshot]
ConnectOp(name) == [op |-> name, pre |-> Snapshot]

\* constructor
InitCdp ==
    /\ ws = 0
    /\ messageId = 1
    /\ pending = {}
    /\ _connected = FALSE
    /\ _page = NoPage
    /\ sock = [t \in Transports |-> "NONE"]
    /\ sockPage = [t \in Transports |-> NoPage]
    /\ connectP = [t \in Transports |-> "none"]
    /\ promise = [c \in Calls |-> Unset]
    /\ timer = [c \in Calls |-> FALSE]
    /\ settleCount = [c \in Calls |-> 0]
    /\ removeCount = [c \in Calls |-> 0]
    /\ issued = <<>>
    /\ sent = <<>>
    /\ lastCall = Op("init")

\* ------------------------------------------------- promise bookkeeping
\* resolve/reject of a promise: only the first invocation has an effect
Settled(pr, ids, st, val) ==
    [c \in Calls |-> IF c \in ids /\ pr[c].st = "unsettled"
                     THEN [st |-> st, val |-> val] ELSE pr[c]]
Bump(cnt, ids) == [c \in Calls |-> IF c \in ids THEN cnt[c] + 1 ELSE cnt[c]]
\* clearTimeout(timer)
Disarm(tm, ids) == [c \in Calls |-> IF c \in ids THEN FALSE ELSE tm[c]]

Frames == [kind : {"result", "error"}, id : 0..MaxCalls, val : Vals]
              \cup {[kind |-> "garbage", id |-> 0, val |-> "v1"]}
\* The frames a peer is made to send: every frame for an id in the pending map, and
\* one frame of each dropped shape (unparseable, no id, id not in the map).
Inbound == {f \in Frames : f.id \in pending \/ (f.kind # "error" /\ f.val = "v1")}

\* --------------------------------------------------------- disconnect()
\* ws.close() of the `ws` library: a socket that is connecting or open starts
\* closing; its 'close' event is emitted later
SockAfterClose(s, w) ==
    IF w # 0 /\ s[w] \in {"CONNECTING", "OPEN"} THEN [s EXCEPT ![w] = "CLOSING"] ELSE s
\* a transport that left CONNECTING never emits 'open': its captured page is dead
Forget(sp, w) == IF w # 0 THEN [sp EXCEPT ![w] = NoPage] ELSE sp

\* disconnect() that also restarts the id counter
AfterDisconnectResetId ==
    [ws |-> 0, sock |-> SockAfterClose(sock, ws), connected |-> FALSE, page |-> NoPage,
     pending |-> {}, removeCount |-> Bump(removeCount, pending),
     messageId |-> 1, promise |-> promise, settleCount |-> settleCount,
     timer |-> timer]


\* disconnect() without `this.pending.clear()`
AfterDisconnectKeepPending ==
    [ws |-> 0, sock |-> SockAfterClose(sock, ws), connected |-> FALSE, page |-> NoPage,
     pending |-> pending, removeCount |-> removeCount,
     messageId |-> messageId, promise |-> promise, settleCount |-> settleCount,
     timer |-> timer]
\* The controller after the body of disconnect(): the pending map is cleared
\* without invoking any reject, and no timer is cleared.
AfterDisconnect ==
    [ws |-> 0, sock |-> SockAfterClose(sock, ws), connected |-> FALSE, page |-> NoPage,
     pending |-> {}, removeCount |-> Bump(removeCount, pending),
     messageId |-> messageId, promise |-> promise, settleCount |-> settleCount,
     timer |-> timer]

Current ==
    [ws |-> ws, sock |-> sock, connected |-> _connected, page |-> _page,
     pending |-> pending, removeCount |-> removeCount,
     messageId |-> messageId, promise |-> promise, settleCount |-> settleCount,
     timer |-> timer]

Disconnect ==
    LET d == AfterDisconnect IN
    /\ ws' = d.ws /\ sock' = d.sock /\ _connected' = d.connected /\ _page' = d.page
    /\ pending' = d.pending /\ removeCount' = d.removeCount
    /\ messageId' = d.messageId /\ promise' = d.promise
    /\ settleCount' = d.settleCount /\ timer' = d.timer
    /\ sockPage' = Forget(sockPage, ws)
    /\ lastCall' = Op("disconnect")
    /\ UNCHANGED <<connectP, issued, sent, ivars>>

\* ------------------------------------------------------------ connect()
\* `if (this.ws) this.disconnect()` and then `this.ws = new WebSocket(wsUrl)`
Connect(p) ==
    \/ /\ p = NoPage                       \* throw before anything is touched
       /\ lastCall' = ConnectOp("connectThrow")
       /\ UNCHANGED <<ws, messageId, pending, _connected, _page, sock, sockPage,
                      connectP, promise, timer, settleCount, removeCount, issued,
                      sent, ivars>>
    \/ /\ p \in Pages
       /\ \E t \in Transports :
            /\ sock[t] = "NONE"
            /\ \A u \in Transports : u < t => sock[u] # "NONE"
            /\ LET d == IF ws # 0 THEN AfterDisconnect ELSE Current IN
               /\ ws' = t
               /\ sock' = [d.sock EXCEPT ![t] = "CONNECTING"]
               /\ _connected' = d.connected /\ _page' = d.page
               /\ pending' = d.pending /\ removeCount' = d.removeCount
               /\ messageId' = d.messageId /\ promise' = d.promise
               /\ settleCount' = d.settleCount /\ timer' = d.timer
            /\ sockPage' = [Forget(sockPage, ws) EXCEPT ![t] = p]
            /\ connectP' = [connectP EXCEPT ![t] = "pending"]
                 /\ lastCall' = ConnectOp("connect")
            /\ UNCHANGED <<issued, sent, ivars>>

\* ------------------------------------------------- transport handlers
\* ws.on('open')
OnOpen(t) ==
    /\ _connected' = TRUE
    /\ _page' = sockPage[t]
    /\ connectP' = [connectP EXCEPT ![t] = IF @ = "pending" THEN "resolved" ELSE @]

OpenEvent(t) ==
    /\ sock[t] = "CONNECTING"
    /\ sock' = [sock EXCEPT ![t] = "OPEN"]
    /\ OnOpen(t)
    /\ sockPage' = Forget(sockPage, t)
    /\ lastCall' = Op("open")
    /\ UNCHANGED <<ws, messageId, pending, promise, timer, settleCount,
                   removeCount, issued, sent, ivars>>

\* a handler that settles the oldest waiter, whatever id the frame carries
OnMessageFifo(f) ==
    IF f.kind # "garbage" /\ f.id # 0 /\ f.id \in pending
    THEN LET o == CHOOSE c \in pending : \A d \in pending : c <= d IN
         /\ pending' = pending \ {o}
         /\ removeCount' = Bump(removeCount, {o})
         /\ timer' = Disarm(timer, {o})
         /\ promise' = Settled(promise, {o},
                               IF f.kind = "error" THEN "rejected" ELSE "resolved", f.val)
         /\ settleCount' = Bump(settleCount, {o})
    ELSE UNCHANGED <<pending, removeCount, timer, promise, settleCount>>

\* a handler that forgets `this.pending.delete(msg.id)`
OnMessageNoDelete(f) ==
    IF f.kind # "garbage" /\ f.id # 0 /\ f.id \in pending
    THEN /\ timer' = Disarm(timer, {f.id})
         /\ promise' = Settled(promise, {f.id},
                               IF f.kind = "error" THEN "rejected" ELSE "resolved", f.val)
         /\ settleCount' = Bump(settleCount, {f.id})
         /\ UNCHANGED <<pending, removeCount>>
    ELSE UNCHANGED <<pending, removeCount, timer, promise, settleCount>>

\* a handler that answers a frame it cannot match by failing the oldest waiter
OnMessageStrict(f) ==
    IF f.kind # "garbage" /\ f.id # 0 /\ f.id \in pending
    THEN /\ pending' = pending \ {f.id}
         /\ removeCount' = Bump(removeCount, {f.id})
         /\ timer' = Disarm(timer, {f.id})
         /\ promise' = Settled(promise, {f.id},
                               IF f.kind = "error" THEN "rejected" ELSE "resolved", f.val)
         /\ settleCount' = Bump(settleCount, {f.id})
    ELSE IF pending # {}
    THEN LET o == CHOOSE c \in pending : \A d \in pending : c <= d IN
         /\ pending' = pending \ {o}
         /\ removeCount' = Bump(removeCount, {o})
         /\ timer' = Disarm(timer, {o})
         /\ promise' = Settled(promise, {o}, "rejected", "protocol")
         /\ settleCount' = Bump(settleCount, {o})
    ELSE UNCHANGED <<pending, removeCount, timer, promise, settleCount>>

\* ws.on('message'): JSON.parse, then `msg.id && this.pending.has(msg.id)`
OnMessage(f) ==
    IF f.kind # "garbage" /\ f.id # 0 /\ f.id \in pending
    THEN /\ pending' = pending \ {f.id}
         /\ removeCount' = Bump(removeCount, {f.id})
         /\ timer' = Disarm(timer, {f.id})
         /\ promise' = Settled(promise, {f.id},
                               IF f.kind = "error" THEN "rejected" ELSE "resolved", f.val)
         /\ settleCount' = Bump(settleCount, {f.id})
    ELSE UNCHANGED <<pending, removeCount, timer, promise, settleCount>>

\* every transport's handler runs the same body on the controller's one pending map
MessageEvent(f) ==
    /\ \E t \in Transports : sock[t] \in {"OPEN", "CLOSING"}
    /\ OnMessage(f)
    /\ lastCall' = Op("message")
    /\ UNCHANGED <<ws, messageId, _connected, _page, sock, sockPage, connectP,
                   issued, sent, ivars>>

\* a close handler that clears the map without rejecting, as disconnect() does
OnCloseNoReject(t) ==
    /\ _connected' = FALSE
    /\ removeCount' = Bump(removeCount, pending)
    /\ pending' = {}
    /\ UNCHANGED <<promise, settleCount, timer>>

\* ws.on('close')
OnClose(t) ==
    /\ _connected' = FALSE
    /\ promise' = Settled(promise, pending, "rejected", "closed")
    /\ settleCount' = Bump(settleCount, pending)
    /\ timer' = Disarm(timer, pending)
    /\ removeCount' = Bump(removeCount, pending)
    /\ pending' = {}

CloseEvent(t) ==
    /\ sock[t] \in {"OPEN", "CLOSING", "ERRORED"}
    /\ sock' = [sock EXCEPT ![t] = "CLOSED"]
    /\ OnClose(t)
    /\ lastCall' = Op("close")
    /\ UNCHANGED <<ws, messageId, _page, sockPage, connectP, issued, sent, ivars>>

\* ws.on('error')
OnError(t) ==
    /\ _connected' = FALSE
    /\ connectP' = [connectP EXCEPT ![t] = IF @ = "pending" THEN "rejected" ELSE @]

\* the library emits 'error' and then 'close'
ErrorEvent(t) ==
    /\ sock[t] \in {"CONNECTING", "OPEN", "CLOSING"}
    /\ sock' = [sock EXCEPT ![t] = "ERRORED"]
    /\ OnError(t)
    /\ sockPage' = Forget(sockPage, t)
    /\ lastCall' = Op("error")
    /\ UNCHANGED <<ws, messageId, pending, _page, promise, timer,
                   settleCount, removeCount, issued, sent, ivars>>

\* the peer's close frame arrives: readyState leaves OPEN before 'close' is emitted
PeerClosing(t) ==
    /\ sock[t] = "OPEN"
    /\ sock' = [sock EXCEPT ![t] = "CLOSING"]
    /\ lastCall' = Op("peerClosing")
    /\ UNCHANGED <<ws, messageId, pending, _connected, _page, sockPage, connectP,
                   promise, timer, settleCount, removeCount, issued, sent, ivars>>

\* ---------------------------------------------------------------- send()
\* `const id = this.messageId++`
NextMessageId(id) == id + 1

Send ==
    \/ /\ ~connected                       \* Promise.reject(new Error('CDP 未连接'))
       /\ lastCall' = FailOp("sendReject")
       /\ UNCHANGED <<ws, messageId, pending, _connected, _page, sock, sockPage,
                      connectP, promise, timer, settleCount, removeCount, issued,
                      sent, ivars>>
    \/ /\ connected
       /\ messageId <= MaxCalls
       /\ LET id == messageId IN
          /\ messageId' = NextMessageId(id)
          /\ timer' = [timer EXCEPT ![id] = TRUE]
          /\ pending' = pending \cup {id}
          /\ promise' = [promise EXCEPT ![id] = [st |-> "unsettled", val |-> ""]]
          /\ issued' = Append(issued, id)
          /\ sent' = Append(sent, [ws |-> ws, id |-> id])
          /\ lastCall' = Op("send")
       /\ UNCHANGED <<ws, _connected, _page, sock, sockPage, connectP, settleCount,
                      removeCount, ivars>>

\* a timer callback that rejects but leaves the entry in the map
OnTimerNoDelete(id) ==
    IF id \in pending
    THEN /\ promise' = Settled(promise, {id}, "rejected", "timeout")
         /\ settleCount' = Bump(settleCount, {id})
         /\ UNCHANGED <<pending, removeCount>>
    ELSE UNCHANGED <<pending, removeCount, promise, settleCount>>

\* the setTimeout callback of send(): `if (this.pending.has(id))`
OnTimer(id) ==
    IF id \in pending
    THEN /\ pending' = pending \ {id}
         /\ removeCount' = Bump(removeCount, {id})
         /\ promise' = Settled(promise, {id}, "rejected", "timeout")
         /\ settleCount' = Bump(settleCount, {id})
    ELSE UNCHANGED <<pending, removeCount, promise, settleCount>>

TimerFire(id) ==
    /\ timer[id]
    /\ timer' = [timer EXCEPT ![id] = FALSE]
    /\ OnTimer(id)
    /\ lastCall' = Op("timer")
    /\ UNCHANGED <<ws, messageId, _connected, _page, sock, sockPage, connectP,
                   issued, sent, ivars>>

\* ============================================================ InputInjector
MaxBot == 1          \* bot messages the page comes to show in one run
MaxProbeFailures == 1   \* probes of one operation that are rejected and swallowed
MaxRetries == 2      \* largest value of the parameter retries that is passed explicitly
MaxRequests == 2     \* gateway requests that arrive in one run
MaxCallers == 2      \* operations that are inside ensureBridge at the same time
MaxInstalls == 2     \* installations of the bridge that one page load is followed through

Timeouts == {2000, 6000}        \* values of the parameter timeout
Polls == {1000, 2000}           \* values of the parameter pollInterval
Texts == {"hi"}                 \* non-empty reply texts
Delays == {0, 500}              \* how late a sleep resumes (timer lag, awaited calls)
phase1Limit == 5000
phase1Sleep == 500
debounce == 1500
evalTimeout == 10000            \* evaluate(expression, timeout = 10000)

NoReads == [first |-> "none", recheck |-> "none", content |-> "none"]
NoOutcome == [kind |-> "none", reply |-> "", error |-> "", elapsed |-> 0]
Bool(b) == IF b THEN "true" ELSE "false"
Callers == 1..MaxCallers

InitPage ==
    /\ sendVisible = TRUE /\ hasError = FALSE /\ botText = "" /\ botCount = 0
    /\ bridge = FALSE /\ cdpUp = TRUE

InitReply ==
    /\ pc = "idle" /\ now = 0 /\ start = 0 /\ wTimeout = 0 /\ wPoll = 0
    /\ beforeCount = 0 /\ elapsed = 0 /\ outcome = NoOutcome /\ reads = NoReads
    /\ sawBusy = FALSE /\ probeFailures = 0

InitBridge ==
    /\ foreign = FALSE /\ installs = 0
    /\ epc = [k \in Callers |-> "idle"]
    /\ probed = [k \in Callers |-> "none"]
    /\ injected = [k \in Callers |-> "none"]

InitSend ==
    /\ op = "none" /\ retries = 0 /\ attempt = 0 /\ log = <<>> /\ ret = NoOutcome
    /\ editor = TRUE

\* ---------------------------------------------------------------- the page
\* the agent starts or stops working: the Send button hides or shows
Toggle ==
    /\ sendVisible' = ~sendVisible
    /\ UNCHANGED <<hasError, botText, botCount, bridge, cdpUp, wvars, cvars, gvars, bvars, xvars>>

\* the agent shows a new bot message, or rewrites the last one while streaming
BotWrites(x) ==
    /\ \/ botCount < MaxBot /\ botCount' = botCount + 1
       \/ botCount > 0 /\ botCount' = botCount
    /\ botText' = x
    /\ botText # x \/ botCount' # botCount
    /\ UNCHANGED <<sendVisible, hasError, bridge, cdpUp, wvars, cvars, gvars, bvars, xvars>>

\* the server-side error banner appears
Banner ==
    /\ ~hasError
    /\ hasError' = TRUE
    /\ UNCHANGED <<sendVisible, botText, botCount, bridge, cdpUp, wvars, cvars, gvars, bvars, xvars>>

\* the page reloads: the injected object is gone
Reload ==
    /\ bridge \/ foreign
    /\ bridge' = FALSE /\ foreign' = FALSE /\ installs' = 0
    /\ UNCHANGED <<sendVisible, hasError, botText, botCount, cdpUp, wvars, cvars, gvars, xvars,
                   epc, probed, injected>>

\* the CDP connection is lost: every later evaluate() rejects
Drop ==
    /\ cdpUp
    /\ cdpUp' = FALSE
    /\ UNCHANGED <<sendVisible, hasError, botText, botCount, bridge, wvars, cvars, gvars, bvars, xvars>>

\* ------------------------------------------------- callBridge(cdp, method)
\* JSON of the method's return value; null when the expression throws in the
\* page because window.__remoteBridge is missing
IsSendVisibleResult == bridge /\ sendVisible                \* null is falsy
\* an error check that never reports a banner
CheckErrorNever == FALSE
CheckErrorResult == bridge /\ hasError                      \* errData?.hasError
LastBotText == IF bridge THEN botText ELSE ""               \* afterBot?.text
LastBotCount == IF bridge THEN botCount ELSE 0              \* beforeBot?.count || 0

\* Math.round(ms / 1000)
RoundSeconds(ms) == (ms + 500) \div 1000

\* -------------------------------------------------------- waitForReply
\* a loop test that compares with the phase-1 limit instead of the timeout
P2NextPhase1Limit(t) == IF t - start < phase1Limit THEN "p2_sleep" ELSE "final"

\* `while (Date.now() - start < timeout)`: the next tick, or the timeout exit
P2Next(t) == IF t - start < wTimeout THEN "p2_sleep" ELSE "final"
\* a phase 1 whose limit is a failure: it goes to the timeout exit
P1NextHardLimit(t) == IF t - start < phase1Limit THEN "p1_ensure" ELSE "final"
\* `while (Date.now() - start < phase1Limit)`
P1Next(t) == IF t - start < phase1Limit THEN "p1_ensure" ELSE P2Next(t)
\* a recheck whose result is not acted on
RecheckIgnored(v, t) == "p2_err"

\* `if (!(await this.isSendVisible())) continue;` after the debounce
RecheckNext(v, t) == IF ~v THEN P2Next(t) ELSE "p2_err"
\* `reply: text || null`
FinalReply(text) == IF text # "" THEN text ELSE "null"

Thrown == [kind |-> "Thrown", reply |-> "", error |-> "cdp", elapsed |-> 0]

\* the control points at an `await this.ensureBridge()`
EnsurePcs == {"ensure0", "p1_ensure", "p2_ensure1", "p2_ensure2",
              "wi_ensure", "st_ensure", "cl_ensure", "fo_ensure", "cs_ensure"}
\* the control points at an awaited callBridge() or cdp.send()
CallPcs == {"baseline", "p1_vis", "p2_vis1", "p2_vis2", "p2_err", "p2_text", "final",
            "wi_vis", "cl_focus", "cl_key1", "cl_key2", "cl_key3", "cl_key4",
            "fo_focus", "st_insert", "st_verify", "cs_click"}
\* where an operation continues after its ensureBridge()
AfterEnsure(p) ==
    CASE p = "ensure0" -> "baseline"
      [] p = "p1_ensure" -> "p1_vis"
      [] p = "p2_ensure1" -> "p2_vis1"
      [] p = "p2_ensure2" -> "p2_vis2"
      [] p = "wi_ensure" -> "wi_vis"
      [] p = "st_ensure" -> "cl_ensure"
      [] p = "cl_ensure" -> "cl_focus"
      [] p = "fo_ensure" -> "fo_focus"
      [] p = "cs_ensure" -> "cs_first"

\* a step of an operation that awaits cdp.evaluate() or cdp.send(): it throws when
\* the call rejects (in ensureBridge: the probe's rejection is swallowed and
\* injectBridge's is not)
Throws ==
    /\ ~cdpUp
    /\ pc \in EnsurePcs \cup CallPcs
    /\ pc' = "done"
    /\ outcome' = Thrown
    /\ UNCHANGED <<now, start, wTimeout, wPoll, beforeCount, elapsed, reads, pvars, cvars, gvars, bvars, xvars>>

StartWait(to, pi) ==
    /\ pc = "idle"
    /\ wTimeout' = to /\ wPoll' = pi
    /\ pc' = "ensure0"
    /\ op' = "waitForReply"
    /\ UNCHANGED <<now, start, beforeCount, elapsed, outcome, reads, pvars, cvars, gvars, bvars,
                   hvars, retries, attempt, log, ret, editor>>

\* a script that installs without looking
AlreadyInstalledNever == FALSE
\* the guard of BRIDGE_SCRIPT: `window.__remoteBridge && ._version === 2`
AlreadyInstalled == bridge

\* ensureBridge(): isBridgeAlive, and injectBridge when it is not
EnsureBridge ==
    /\ cdpUp
    /\ pc \in EnsurePcs
    /\ bridge' = TRUE
    /\ installs' = IF AlreadyInstalled THEN installs ELSE installs + 1
    /\ foreign' = FALSE
    /\ pc' = AfterEnsure(pc)
    /\ start' = IF pc = "ensure0" THEN now ELSE start
    /\ UNCHANGED <<sendVisible, hasError, botText, botCount, cdpUp, now, wTimeout,
                   wPoll, beforeCount, elapsed, outcome, reads, cvars, gvars, xvars,
                   epc, probed, injected>>

\* ensureBridge() whose probe is rejected by its deadline while the connection
\* stays up: isBridgeAlive catches the rejection and returns false, injectBridge
\* is called and succeeds
ProbeFails ==
    /\ cdpUp
    /\ pc \in EnsurePcs
    /\ probeFailures < MaxProbeFailures
    /\ probeFailures' = probeFailures + 1
    /\ now' = now + evalTimeout
    /\ bridge' = TRUE
    /\ installs' = IF AlreadyInstalled THEN installs ELSE installs + 1
    /\ foreign' = FALSE
    /\ pc' = AfterEnsure(pc)
    /\ start' = IF pc = "ensure0" THEN now' ELSE start
    /\ UNCHANGED <<sendVisible, hasError, botText, botCount, cdpUp, wTimeout,
                   wPoll, beforeCount, elapsed, outcome, reads, cvars, gvars, sawBusy, svars,
                   epc, probed, injected>>

\* an awaited call that is rejected by its deadline while the connection stays
\* up (in ensureBridge: the injection call): the operation throws
CallTimesOut ==
    /\ cdpUp
    /\ pc \in EnsurePcs \cup CallPcs
    /\ now' = now + evalTimeout
    /\ pc' = "done"
    /\ outcome' = Thrown
    /\ UNCHANGED <<start, wTimeout, wPoll, beforeCount, elapsed, reads, pvars, cvars, gvars, bvars,
                   xvars>>

\* lines 123-124
Baseline ==
    /\ cdpUp /\ pc = "baseline"
    /\ beforeCount' = LastBotCount
    /\ pc' = P1Next(now)
    /\ UNCHANGED <<now, start, wTimeout, wPoll, elapsed, outcome, reads, pvars, cvars, gvars, bvars, xvars>>

\* line 129
Phase1Check ==
    /\ cdpUp /\ pc = "p1_vis"
    /\ pc' = IF ~IsSendVisibleResult THEN P2Next(now) ELSE "p1_sleep"
    /\ sawBusy' = ~IsSendVisibleResult
    /\ UNCHANGED <<now, start, wTimeout, wPoll, beforeCount, elapsed, outcome, reads,
                   pvars, cvars, gvars, bvars, probeFailures, svars>>

\* line 130 and the loop test of line 128
Phase1Sleep(d) ==
    /\ pc = "p1_sleep"
    /\ now' = now + phase1Sleep + d
    /\ pc' = P1Next(now')
    /\ UNCHANGED <<start, wTimeout, wPoll, beforeCount, elapsed, outcome, reads,
                   pvars, cvars, gvars, bvars, xvars>>

\* lines 135-136: a tick begins
PollSleep(d) ==
    /\ pc = "p2_sleep"
    /\ now' = now + wPoll + d
    /\ elapsed' = RoundSeconds(now' - start)
    /\ reads' = NoReads
    /\ pc' = "p2_ensure1"
    /\ UNCHANGED <<start, wTimeout, wPoll, beforeCount, outcome, pvars, cvars, gvars, bvars, xvars>>

\* line 138
FirstCheck ==
    /\ cdpUp /\ pc = "p2_vis1"
    /\ reads' = [reads EXCEPT !.first = Bool(IsSendVisibleResult)]
    /\ pc' = IF IsSendVisibleResult THEN "p2_debounce" ELSE P2Next(now)
    /\ UNCHANGED <<now, start, wTimeout, wPoll, beforeCount, elapsed, outcome,
                   pvars, cvars, gvars, bvars, xvars>>

\* line 140
Debounce(d) ==
    /\ pc = "p2_debounce"
    /\ now' = now + debounce + d
    /\ pc' = "p2_ensure2"
    /\ UNCHANGED <<start, wTimeout, wPoll, beforeCount, elapsed, outcome, reads,
                   pvars, cvars, gvars, bvars, xvars>>

\* line 141
Recheck ==
    /\ cdpUp /\ pc = "p2_vis2"
    /\ reads' = [reads EXCEPT !.recheck = Bool(IsSendVisibleResult)]
    /\ pc' = RecheckNext(IsSendVisibleResult, now)
    /\ UNCHANGED <<now, start, wTimeout, wPoll, beforeCount, elapsed, outcome,
                   pvars, cvars, gvars, bvars, xvars>>

\* lines 144-147
ErrorCheck ==
    /\ cdpUp /\ pc = "p2_err"
    /\ IF CheckErrorResult
       THEN /\ pc' = "done"
            /\ reads' = [reads EXCEPT !.content = "error"]
            /\ outcome' = [kind |-> "Failed", reply |-> "", error |-> "banner",
                           elapsed |-> elapsed]
       ELSE /\ pc' = "p2_text"
            /\ UNCHANGED <<reads, outcome>>
    /\ UNCHANGED <<now, start, wTimeout, wPoll, beforeCount, elapsed, pvars, cvars, gvars, bvars, xvars>>

\* a completion test that insists on a count above the baseline
ReplyAcceptedCountOnly(count, text) == count > beforeCount /\ text # ""
\* line 151: (afterBot?.count > beforeCount && afterBot?.text) || afterBot?.text
ReplyAccepted(count, text) == (count > beforeCount /\ text # "") \/ text # ""

\* lines 150-153
ReadReply ==
    /\ cdpUp /\ pc = "p2_text"
    /\ IF ReplyAccepted(LastBotCount, LastBotText)
       THEN /\ pc' = "done"
            /\ reads' = [reads EXCEPT !.content = "text"]
            /\ outcome' = [kind |-> "Completed", reply |-> LastBotText, error |-> "",
                           elapsed |-> elapsed]
       ELSE /\ pc' = P2Next(now)
            /\ reads' = [reads EXCEPT !.content = "empty"]
            /\ UNCHANGED outcome
    /\ UNCHANGED <<now, start, wTimeout, wPoll, beforeCount, elapsed, pvars, cvars, gvars, bvars, xvars>>

\* lines 157-158
TimeoutExit ==
    /\ cdpUp /\ pc = "final"
    /\ pc' = "done"
    /\ outcome' = [kind |-> "TimedOut", reply |-> FinalReply(LastBotText),
                   error |-> "timeout", elapsed |-> 0]
    /\ UNCHANGED <<now, start, wTimeout, wPoll, beforeCount, elapsed, reads, pvars, cvars, gvars, bvars, xvars>>

\* ------------------------------------------------------------ the editor
\* the Lexical editor leaves or enters the page
EditorToggle ==
    /\ editor' = ~editor
    /\ UNCHANGED <<pvars, wvars, cvars, gvars, bvars, hvars, op, retries, attempt, log, ret>>

\* ----------------------------------------------------------- waitForIdle
IdleTimeouts == {0, 2000, 3000}     \* values of the parameter timeout
idleDefault == 120000               \* waitForIdle(timeout = 120000)
idleSleep == 1000                   \* _sleep(1000)
retriesDefault == 10                \* clickSend(retries = 10)
retrySleep == 1000                  \* _sleep(1000)
settleSleep == 50                   \* _sleep(50)
verifySleep == 100                  \* _sleep(100)
sendDelay == 300                    \* sendText(text, delay = 300)

\* the returned objects { success, error }
Ret(kind, err) == [kind |-> kind, reply |-> "", error |-> err, elapsed |-> 0]
Success(r) == r.kind \in {"Completed", "IdleOk", "SetOk", "ClickOk", "SendOk"}

\* waitForIdle returns r: to the caller, or into line 92 of sendText, which
\* drops the value and goes on with setText
IdleReturns(r) ==
    /\ ret' = r
    /\ IF op = "sendText"
       THEN pc' = "st_ensure" /\ UNCHANGED outcome
       ELSE pc' = "done" /\ outcome' = r

\* a loop test that lets one more poll start at the deadline
IdleLoopInclusive(el, to) ==
    IF el <= to
    THEN pc' = "wi_ensure" /\ UNCHANGED <<ret, outcome>>
    ELSE IdleReturns(Ret("IdleTimedOut", "waitForIdle timeout"))

\* `while (Date.now() - start < timeout)` and line 115
IdleLoop(el, to) ==
    IF el < to
    THEN pc' = "wi_ensure" /\ UNCHANGED <<ret, outcome>>
    ELSE IdleReturns(Ret("IdleTimedOut", "waitForIdle timeout"))

StartWaitForIdle(to) ==
    /\ pc = "idle"
    /\ op' = "waitForIdle"
    /\ wTimeout' = to
    /\ start' = now
    /\ IdleLoop(0, to)
    /\ UNCHANGED <<now, wPoll, beforeCount, elapsed, reads, pvars, cvars, gvars, bvars, hvars,
                   retries, attempt, log, editor>>

\* line 112
IdlePoll ==
    /\ cdpUp /\ pc = "wi_vis"
    /\ reads' = [reads EXCEPT !.first = Bool(IsSendVisibleResult)]
    /\ IF IsSendVisibleResult
       THEN IdleReturns(Ret("IdleOk", ""))
       ELSE pc' = "wi_sleep" /\ UNCHANGED <<ret, outcome>>
    /\ UNCHANGED <<now, start, wTimeout, wPoll, beforeCount, elapsed, pvars, cvars, gvars, bvars,
                   hvars, op, retries, attempt, log, editor>>

\* line 113 and the loop test of line 111
IdleSleep(d) ==
    /\ pc = "wi_sleep"
    /\ now' = now + idleSleep + d
    /\ IdleLoop(now' - start, wTimeout)
    /\ UNCHANGED <<start, wTimeout, wPoll, beforeCount, elapsed, reads, pvars, cvars, gvars, bvars,
                   hvars, op, retries, attempt, log, editor>>

\* --------------------------------------------------------------- setText
\* callBridge(cdp, 'focusInput')?.success
FocusInputResult == bridge /\ editor
\* focusResult?.error || the default message
FocusError == IF bridge THEN "no editor" ELSE "focus failed"

\* setText returns r: to the caller, or into lines 94-96 of sendText
SetReturns(r) ==
    /\ ret' = r
    /\ IF op = "sendText" /\ Success(r)
       THEN pc' = "sx_sleep" /\ UNCHANGED outcome
       ELSE pc' = "done" /\ outcome' = r

StartSetText ==
    /\ pc = "idle"
    /\ op' = "setText"
    /\ pc' = "st_ensure"
    /\ UNCHANGED <<now, start, wTimeout, wPoll, beforeCount, elapsed, outcome, reads,
                   pvars, cvars, gvars, bvars, hvars, retries, attempt, log, ret, editor>>

\* clearInput, line 38: the result of focusInput() is not looked at
ClearFocus ==
    /\ cdpUp /\ pc = "cl_focus"
    /\ log' = Append(log, IF FocusInputResult THEN "focus+" ELSE "focus-")
    /\ pc' = "cl_key1"
    /\ UNCHANGED <<now, start, wTimeout, wPoll, beforeCount, elapsed, outcome, reads,
                   pvars, cvars, gvars, bvars, hvars, op, retries, attempt, ret, editor>>

\* clearInput, lines 40-52: Ctrl+A down and up, Backspace down and up
ClearKey ==
    /\ cdpUp /\ pc \in {"cl_key1", "cl_key2", "cl_key3", "cl_key4"}
    /\ log' = Append(log, "key")
    /\ pc' = CASE pc = "cl_key1" -> "cl_key2"
               [] pc = "cl_key2" -> "cl_key3"
               [] pc = "cl_key3" -> "cl_key4"
               [] pc = "cl_key4" -> "st_sleep50"
    /\ UNCHANGED <<now, start, wTimeout, wPoll, beforeCount, elapsed, outcome, reads,
                   pvars, cvars, gvars, bvars, hvars, op, retries, attempt, ret, editor>>

\* line 58
SettleSleep ==
    /\ pc = "st_sleep50"
    /\ now' = now + settleSleep
    /\ pc' = "fo_ensure"
    /\ UNCHANGED <<start, wTimeout, wPoll, beforeCount, elapsed, outcome, reads,
                   pvars, cvars, gvars, bvars, xvars>>

\* a focus check that lets a failed focus through
FocusNextUnchecked(ok) == "st_insert"
\* `if (!focusResult?.success) return ...`
FocusNext(ok) == IF ok THEN "st_insert" ELSE "return"

\* lines 60-63
Focus ==
    /\ cdpUp /\ pc = "fo_focus"
    /\ log' = Append(log, IF FocusInputResult THEN "focus+" ELSE "focus-")
    /\ IF FocusNext(FocusInputResult) = "return"
       THEN SetReturns(Ret("SetFailed", FocusError))
       ELSE pc' = "st_insert" /\ UNCHANGED <<ret, outcome>>
    /\ UNCHANGED <<now, start, wTimeout, wPoll, beforeCount, elapsed, reads,
                   pvars, cvars, gvars, bvars, hvars, op, retries, attempt, editor>>

\* line 66
InsertText ==
    /\ cdpUp /\ pc = "st_insert"
    /\ log' = Append(log, "insert")
    /\ pc' = "st_sleep100"
    /\ UNCHANGED <<now, start, wTimeout, wPoll, beforeCount, elapsed, outcome, reads,
                   pvars, cvars, gvars, bvars, hvars, op, retries, attempt, ret, editor>>

\* line 67
VerifySleep ==
    /\ pc = "st_sleep100"
    /\ now' = now + verifySleep
    /\ pc' = "st_verify"
    /\ UNCHANGED <<start, wTimeout, wPoll, beforeCount, elapsed, outcome, reads,
                   pvars, cvars, gvars, bvars, xvars>>

\* lines 70-71
Verify ==
    /\ cdpUp /\ pc = "st_verify"
    /\ log' = Append(log, "verify")
    /\ SetReturns(Ret("SetOk", ""))
    /\ UNCHANGED <<now, start, wTimeout, wPoll, beforeCount, elapsed, reads,
                   pvars, cvars, gvars, bvars, hvars, op, retries, attempt, editor>>

\* ------------------------------------------------------------- clickSend
\* callBridge(cdp, 'clickSend')?.success: the button isSendVisible looks for
ClickSendResult == bridge /\ sendVisible

\* clickSend returns r: to the caller, or into line 99 of sendText
ClickReturns(r) ==
    /\ pc' = "done"
    /\ ret' = r
    /\ outcome' = IF op = "sendText"
                  THEN Ret(IF Success(r) THEN "SendOk" ELSE "SendFailed", r.error)
                  ELSE r

ClickExhausted == Ret("ClickFailed", "not found after retries")

StartClickSend(n) ==
    /\ pc = "idle"
    /\ op' = "clickSend"
    /\ retries' = n
    /\ pc' = "cs_ensure"
    /\ UNCHANGED <<now, start, wTimeout, wPoll, beforeCount, elapsed, outcome, reads,
                   pvars, cvars, gvars, bvars, hvars, attempt, log, ret, editor>>

\* line 78: `let attempt = 0; attempt < retries`
ClickBegin ==
    /\ pc = "cs_first"
    /\ attempt' = 0
    /\ IF 0 < retries
       THEN pc' = "cs_click" /\ UNCHANGED <<ret, outcome>>
       ELSE ClickReturns(ClickExhausted)
    /\ UNCHANGED <<now, start, wTimeout, wPoll, beforeCount, elapsed, reads,
                   pvars, cvars, gvars, bvars, hvars, op, retries, log, editor>>

\* a retry loop that makes one attempt more than asked
ClickAgainOneMore(a) == a < retries
\* `if (attempt < retries - 1) await _sleep(1000)`, then `attempt++ < retries`
ClickAgain(a) == a < retries - 1

\* lines 79-83: one attempt; after a failed last attempt the loop ends
ClickAttempt ==
    /\ cdpUp /\ pc = "cs_click"
    /\ log' = Append(log, IF ClickSendResult THEN "click+" ELSE "click-")
    /\ IF ClickSendResult
       THEN ClickReturns(Ret("ClickOk", "")) /\ UNCHANGED attempt
       ELSE IF ClickAgain(attempt)
            THEN pc' = "cs_sleep" /\ UNCHANGED <<attempt, ret, outcome>>
            ELSE attempt' = attempt + 1 /\ ClickReturns(ClickExhausted)
    /\ UNCHANGED <<now, start, wTimeout, wPoll, beforeCount, elapsed, reads,
                   pvars, cvars, gvars, bvars, hvars, op, retries, editor>>

\* line 81 and `attempt++`
ClickSleep ==
    /\ pc = "cs_sleep"
    /\ now' = now + retrySleep
    /\ attempt' = attempt + 1
    /\ pc' = "cs_click"
    /\ UNCHANGED <<start, wTimeout, wPoll, beforeCount, elapsed, outcome, reads,
                   pvars, cvars, gvars, bvars, hvars, op, retries, log, ret, editor>>

\* -------------------------------------------------------------- sendText
\* line 92: waitForIdle() with its default timeout
StartSendText ==
    /\ pc = "idle"
    /\ op' = "sendText"
    /\ wTimeout' = idleDefault
    /\ start' = now
    /\ pc' = "wi_ensure"
    /\ UNCHANGED <<now, wPoll, beforeCount, elapsed, outcome, reads, pvars, cvars, gvars, bvars,
                   hvars, retries, attempt, log, ret, editor>>

\* lines 96-98: the delay, then clickSend() with its default retries
SendDelay ==
    /\ pc = "sx_sleep"
    /\ now' = now + sendDelay
    /\ retries' = retriesDefault
    /\ pc' = "cs_ensure"
    /\ UNCHANGED <<start, wTimeout, wPoll, beforeCount, elapsed, outcome, reads,
                   pvars, cvars, gvars, bvars, hvars, op, attempt, log, ret, editor>>

NextSend ==
    \/ Toggle
    \/ Reload
    \/ Drop
    \/ EditorToggle
    \/ \E to \in IdleTimeouts : StartWaitForIdle(to)
    \/ StartSetText
    \/ \E n \in 0..MaxRetries : StartClickSend(n)
    \/ StartSendText
    \/ EnsureBridge
    \/ ProbeFails
    \/ IdlePoll
    \/ \E d \in Delays : IdleSleep(d)
    \/ ClearFocus
    \/ ClearKey
    \/ SettleSleep
    \/ Focus
    \/ InsertText
    \/ VerifySleep
    \/ Verify
    \/ SendDelay
    \/ ClickBegin
    \/ ClickAttempt
    \/ ClickSleep
    \/ Throws
    \/ CallTimesOut

NextReply ==
    \/ Toggle
    \/ \E x \in Texts \cup {""} : BotWrites(x)
    \/ Banner
    \/ Reload
    \/ Drop
    \/ \E to \in Timeouts : \E pi \in Polls : StartWait(to, pi)
    \/ EnsureBridge
    \/ Baseline
    \/ Phase1Check
    \/ \E d \in Delays : Phase1Sleep(d)
    \/ \E d \in Delays : PollSleep(d)
    \/ FirstCheck
    \/ \E d \in Delays : Debounce(d)
    \/ Recheck
    \/ ErrorCheck
    \/ ReadReply
    \/ TimeoutExit
    \/ Throws
    \/ ProbeFails
    \/ CallTimesOut


\* ------------------------------------------ waitForReply on a healthy page
\* The steps of waitForReply itself: every awaited call returns and every sleep
\* ends, so the async function keeps going until it returns.
ReplyStep ==
    \/ EnsureBridge
    \/ Baseline
    \/ Phase1Check
    \/ \E d \in Delays : Phase1Sleep(d)
    \/ \E d \in Delays : PollSleep(d)
    \/ FirstCheck
    \/ \E d \in Delays : Debounce(d)
    \/ Recheck
    \/ ErrorCheck
    \/ ReadReply
    \/ TimeoutExit

\* values of the parameter timeout on either side of phase1Limit
LiveTimeouts == {4000, 6000}

\* waitForReply against a page that is neither reloaded nor cut off: only the
\* indicator, the banner and the agent's text change under it
NextReplyLive ==
    \/ Toggle
    \/ \E x \in Texts \cup {""} : BotWrites(x)
    \/ Banner
    \/ \E to \in LiveTimeouts : \E pi \in Polls : StartWait(to, pi)
    \/ ReplyStep

\* ============================================= ensureBridge, step by step
\* Every operation of InputInjector begins with ensureBridge, and LinkServer
\* starts a handler per request, so several callers can be inside it at once.

\* a bridge object of an older version is on the page
OldBridge ==
    /\ ~bridge /\ ~foreign
    /\ foreign' = TRUE
    /\ UNCHANGED <<installs, epc, probed, injected, pvars, wvars, cvars, gvars, xvars>>

\* ensureBridge() is entered: the probe is sent
StartEnsure(k) ==
    /\ epc[k] = "idle"
    /\ epc' = [epc EXCEPT ![k] = "probe"]
    /\ probed' = [probed EXCEPT ![k] = "none"]
    /\ injected' = [injected EXCEPT ![k] = "none"]
    /\ UNCHANGED <<foreign, installs, pvars, wvars, cvars, gvars, xvars>>

\* `if (!(await isBridgeAlive(this.cdp)))`: inject unless the probe said alive
AfterProbe(alive) == IF alive THEN "idle" ELSE "inject"

\* isBridgeAlive answers: alive exactly for an object of version 2
Probe(k) ==
    /\ epc[k] = "probe" /\ cdpUp
    /\ probed' = [probed EXCEPT ![k] = IF bridge THEN "present" ELSE "absent"]
    /\ epc' = [epc EXCEPT ![k] = AfterProbe(bridge)]
    /\ UNCHANGED <<foreign, installs, injected, pvars, wvars, cvars, gvars, xvars>>

\* the probe's evaluate() rejects (not connected, deadline): `catch { return false }`
ProbeRejected(k) ==
    /\ epc[k] = "probe"
    /\ probed' = [probed EXCEPT ![k] = "error"]
    /\ epc' = [epc EXCEPT ![k] = AfterProbe(FALSE)]
    /\ UNCHANGED <<foreign, installs, injected, pvars, wvars, cvars, gvars, xvars>>

\* BRIDGE_SCRIPT runs in the page
RunScript ==
    IF AlreadyInstalled
    THEN UNCHANGED <<bridge, foreign, installs>>
    ELSE /\ bridge' = TRUE /\ foreign' = FALSE
         /\ installs' = installs + 1

\* injectBridge(): the script runs and its JSON comes back
Inject(k) ==
    /\ epc[k] = "inject" /\ cdpUp
    /\ AlreadyInstalled \/ installs < MaxInstalls
    /\ injected' = [injected EXCEPT ![k] = IF AlreadyInstalled THEN "exists" ELSE "injected"]
    /\ RunScript
    /\ epc' = [epc EXCEPT ![k] = "idle"]
    /\ UNCHANGED <<probed, sendVisible, hasError, botText, botCount, cdpUp,
                   wvars, cvars, gvars, xvars>>

\* injectBridge() throws: evaluate() rejects because the controller is not
\* connected (the script never runs), or by its deadline (the script may have run)
InjectRejected(k, ran) ==
    /\ epc[k] = "inject"
    /\ ran => (cdpUp /\ (AlreadyInstalled \/ installs < MaxInstalls))
    /\ injected' = [injected EXCEPT ![k] = "threw"]
    /\ IF ran THEN RunScript ELSE UNCHANGED <<bridge, foreign, installs>>
    /\ epc' = [epc EXCEPT ![k] = "idle"]
    /\ UNCHANGED <<probed, sendVisible, hasError, botText, botCount, cdpUp,
                   wvars, cvars, gvars, xvars>>

NextBridge ==
    \/ Reload
    \/ Drop
    \/ OldBridge
    \/ \E k \in Callers : StartEnsure(k)
    \/ \E k \in Callers : Probe(k)
    \/ \E k \in Callers : ProbeRejected(k)
    \/ \E k \in Callers : Inject(k)
    \/ \E k \in Callers : \E ran \in BOOLEAN : InjectRejected(k, ran)

\* =============================================================== LinkServer
Requests == 1..MaxRequests
\* the routes /api/send, /api/setText, /api/pressEnter, /api/waitForReply and
\* the ws actions of the same names
Operations == {"send", "setText", "pressEnter", "waitForReply"}
NoAnswer == [success |-> FALSE, inner |-> FALSE, sent |-> FALSE]

InitGateway ==
    /\ gpc = [r \in Requests |-> "none"]
    /\ via = [r \in Requests |-> "none"]
    /\ what = [r \in Requests |-> "none"]
    /\ answer = [r \in Requests |-> NoAnswer]
    /\ editorText = <<>>
    /\ submitted = <<>>
    /\ busy = FALSE

\* the first step of the operation's handler: sendText begins with waitForIdle,
\* setText with clearInput, pressEnter with clickSend
FirstStep(w) ==
    CASE w = "send" -> "waitIdle"
      [] w = "setText" -> "clear"
      [] w = "pressEnter" -> "submit"
      [] w = "waitForReply" -> "wait"

\* a POST to one of the routes, or a ws message with the action: the handler is
\* started as soon as the request arrives
Arrive(r, how, w) ==
    /\ gpc[r] = "none"
    /\ gpc' = [gpc EXCEPT ![r] = FirstStep(w)]
    /\ via' = [via EXCEPT ![r] = how]
    /\ what' = [what EXCEPT ![r] = w]
    /\ UNCHANGED <<answer, editorText, submitted, busy, cvars, pvars, wvars, xvars, bvars>>

\* `this._json(res, { success: true, data: result })` and `this._json(res, result)`
HttpSuccess(w, ok) == IF w \in {"setText", "pressEnter"} THEN TRUE ELSE ok
\* `this._wsReply(ws, { success: true, data: result, id })`
WsSuccess(w, ok) == TRUE
\* the top-level `success` of the answer to an operation that returned `ok`
TopSuccess(how, w, ok) == IF how = "http" THEN HttpSuccess(w, ok) ELSE WsSuccess(w, ok)
\* the answer that carries the operation's result
Answer(r, ok) ==
    [success |-> TopSuccess(via[r], what[r], ok), inner |-> ok, sent |-> TRUE]
\* `{ success: false, error: sendResult.error }` when sendText failed
SendFailed == [success |-> FALSE, inner |-> FALSE, sent |-> TRUE]

\* sendText, line 92: waitForIdle saw the Send button
GwWaitIdle(r) ==
    /\ gpc[r] = "waitIdle" /\ ~busy
    /\ gpc' = [gpc EXCEPT ![r] = "clear"]
    /\ UNCHANGED <<via, what, answer, editorText, submitted, busy, cvars, pvars, wvars,
                   xvars, bvars>>

\* setText, line 57: select all, delete
GwClear(r) ==
    /\ gpc[r] = "clear"
    /\ editorText' = <<>>
    /\ gpc' = [gpc EXCEPT ![r] = "focus"]
    /\ UNCHANGED <<via, what, answer, submitted, busy, cvars, pvars, wvars, xvars, bvars>>

\* setText, line 60
GwFocus(r) ==
    /\ gpc[r] = "focus"
    /\ gpc' = [gpc EXCEPT ![r] = "insert"]
    /\ UNCHANGED <<via, what, answer, editorText, submitted, busy, cvars, pvars, wvars,
                   xvars, bvars>>

\* setText, lines 61-63: the focus failed and setText returns success: false;
\* sendText passes that on and the send handler answers with the failure
GwFocusFails(r) ==
    /\ gpc[r] = "focus"
    /\ gpc' = [gpc EXCEPT ![r] = "replied"]
    /\ answer' = [answer EXCEPT ![r] = IF what[r] = "send" THEN SendFailed
                                                           ELSE Answer(r, FALSE)]
    /\ UNCHANGED <<via, what, editorText, submitted, busy, cvars, pvars, wvars, xvars, bvars>>

\* setText, line 66: the text goes in at the cursor, after what is there;
\* setText returns success: true
GwInsert(r) ==
    /\ gpc[r] = "insert"
    /\ editorText' = Append(editorText, r)
    /\ IF what[r] = "setText"
       THEN /\ gpc' = [gpc EXCEPT ![r] = "replied"]
            /\ answer' = [answer EXCEPT ![r] = Answer(r, TRUE)]
       ELSE /\ gpc' = [gpc EXCEPT ![r] = "submit"]
            /\ UNCHANGED answer
    /\ UNCHANGED <<via, what, submitted, busy, cvars, pvars, wvars, xvars, bvars>>

\* clickSend: the Send button is there and is clicked; the page sends what the
\* editor holds and the agent starts working
GwSubmit(r) ==
    /\ gpc[r] = "submit" /\ ~busy
    /\ submitted' = Append(submitted, editorText)
    /\ editorText' = <<>>
    /\ busy' = TRUE
    /\ IF what[r] = "pressEnter"
       THEN /\ gpc' = [gpc EXCEPT ![r] = "replied"]
            /\ answer' = [answer EXCEPT ![r] = Answer(r, TRUE)]
       ELSE /\ gpc' = [gpc EXCEPT ![r] = "wait"]
            /\ UNCHANGED answer
    /\ UNCHANGED <<via, what, cvars, pvars, wvars, xvars, bvars>>

\* clickSend, line 83: no Send button in any of the attempts; the send handler
\* answers with the failure (`if (!sendResult.success)`), the pressEnter handler
\* with the result
GwSubmitFails(r) ==
    /\ gpc[r] = "submit" /\ busy
    /\ gpc' = [gpc EXCEPT ![r] = "replied"]
    /\ answer' = [answer EXCEPT ![r] = IF what[r] = "send" THEN SendFailed
                                                           ELSE Answer(r, FALSE)]
    /\ UNCHANGED <<via, what, editorText, submitted, busy, cvars, pvars, wvars, xvars, bvars>>

\* the handler's waitForReply returned success: the Send button is back
GwWait(r) ==
    /\ gpc[r] = "wait" /\ ~busy
    /\ gpc' = [gpc EXCEPT ![r] = "replied"]
    /\ answer' = [answer EXCEPT ![r] = Answer(r, TRUE)]
    /\ UNCHANGED <<via, what, editorText, submitted, busy, cvars, pvars, wvars, xvars, bvars>>

\* the handler's waitForReply returned success: false (error banner, timeout)
GwWaitFails(r) ==
    /\ gpc[r] = "wait"
    /\ gpc' = [gpc EXCEPT ![r] = "replied"]
    /\ answer' = [answer EXCEPT ![r] = Answer(r, FALSE)]
    /\ UNCHANGED <<via, what, editorText, submitted, busy, cvars, pvars, wvars, xvars, bvars>>

\* the agent finishes its turn
AgentDone ==
    /\ busy
    /\ busy' = FALSE
    /\ UNCHANGED <<gpc, via, what, answer, editorText, submitted, cvars, pvars, wvars,
                   xvars, bvars>>

NextGateway ==
    \/ \E r \in Requests : \E how \in {"http", "ws"} : \E w \in Operations :
            Arrive(r, how, w)
    \/ \E r \in Requests : GwWaitIdle(r)
    \/ \E r \in Requests : GwClear(r)
    \/ \E r \in Requests : GwFocus(r)
    \/ \E r \in Requests : GwFocusFails(r)
    \/ \E r \in Requests : GwInsert(r)
    \/ \E r \in Requests : GwSubmit(r)
    \/ \E r \in Requests : GwSubmitFails(r)
    \/ \E r \in Requests : GwWait(r)
    \/ \E r \in Requests : GwWaitFails(r)
    \/ AgentDone

Init == InitCdp /\ InitPage /\ InitReply /\ InitSend /\ InitGateway /\ InitBridge

Next ==
    \/ \E p \in Pages \cup {NoPage} : Connect(p)
    \/ Disconnect
    \/ Send
    \/ \E t \in Transports : OpenEvent(t)
    \/ \E f \in Inbound : MessageEvent(f)
    \/ \E t \in Transports : CloseEvent(t)
    \/ \E t \in Transports : ErrorEvent(t)
    \/ \E t \in Transports : PeerClosing(t)
    \/ \E c \in Calls : TimerFire(c)

Spec == Init /\ [][Next]_vars


\* Node runs the callback of every armed setTimeout: a deadline timer that
\* stays armed fires.
SpecLive == Spec /\ \A c \in Calls : WF_vars(TimerFire(c))
SpecReply == Init /\ [][NextReply]_vars


SpecReplyLive == Init /\ [][NextReplyLive]_vars /\ WF_vars(ReplyStep)

SpecBridge == Init /\ [][NextBridge]_vars
SpecSend == Init /\ [][NextSend]_vars

SpecGateway == Init /\ [][NextGateway]_vars

\* =================================================================== claims
RejectedClosed == [st |-> "rejected", val |-> "closed"]
RejectedTimeout == [st |-> "rejected", val |-> "timeout"]
\* the Connected state of the connection
IsConnected == _connected /\ ws # 0 /\ sock[ws] = "OPEN"
\* the settlement a response frame asks for
FrameOutcome(f) == [st |-> IF f.kind = "error" THEN "rejected" ELSE "resolved", val |-> f.val]

\* C1: when a transport's 'close' event fires with k entries in the pending map,
\* exactly those k calls are rejected, each once, with the connection-closed
\* error; no other call is touched, the map is empty afterwards and the
\* connection reports not connected.
C1_CloseRejectsEveryPending ==
    [][\A t \in Transports :
         (sock[t] # "CLOSED" /\ sock'[t] = "CLOSED") =>
            /\ \A c \in pending :
                 /\ promise'[c] = RejectedClosed
                 /\ settleCount[c] = 0 /\ settleCount'[c] = 1
            /\ \A c \in Calls \ pending :
                 promise'[c] = promise[c] /\ settleCount'[c] = settleCount[c]
            /\ pending' = {}
            /\ ~IsConnected']_vars

\* two calls were outstanding when the transport closed; both were rejected
C1_Witness ==
    /\ Cardinality({c \in Calls : promise[c] = RejectedClosed}) = 2
    /\ pending = {}
    /\ \E t \in Transports : sock[t] = "CLOSED"

\* C2: closing the connection rejects every in-flight call exactly once, also
\* when the close is started locally by disconnect() or by a superseding
\* connect(): once the transport a call was sent on has closed, the call has
\* been settled.
C2_ClosedTransportLeavesNoCallUnsettled ==
    \A i \in 1..Len(sent) :
        sock[sent[i].ws] = "CLOSED" =>
            promise[sent[i].id].st # "unsettled" /\ settleCount[sent[i].id] = 1

\* C3: the ids send() hands out start at 1 and are strictly increasing in call
\* order (hence pairwise distinct), across settlements, disconnect() and
\* reconnects.
C3_IdsStrictlyIncreasing ==
    /\ Len(issued) > 0 => issued[1] = 1
    /\ \A i, j \in 1..Len(issued) : i < j => issued[i] < issued[j]

\* the second id was handed out on another transport than the first, after
\* the first call was dropped or settled
C3_Witness ==
    /\ Len(sent) = 2
    /\ sent[1].ws # sent[2].ws
    /\ 1 \notin pending

\* C4: a send() while the connection is not Connected rejects at once and
\* changes nothing: no entry, no id, no timer, no frame; and no id is ever
\* handed out while the connection is not Connected.
C4_SendWhileDisconnectedIsInert ==
    [][/\ lastCall'.op = "sendReject" =>
            /\ ~IsConnected
            /\ UNCHANGED <<pending, messageId, timer, sent, issued, promise,
                           settleCount, ws, sock, _connected, _page>>
       /\ issued' # issued => IsConnected]_vars

\* a send() was rejected while the flag was still set and a call was pending:
\* the socket had left OPEN before its 'close' event
C4_Witness ==
    /\ lastCall.op = "sendReject"
    /\ _connected
    /\ pending # {}

\* C5: when the deadline timer of a call that is still in the pending map
\* fires, the call is rejected with the timeout error and its entry removed;
\* a response frame for that id arriving afterwards changes nothing, and the
\* timeout rejection stands.
C5_TimeoutThenLateResponse ==
    [][\A c \in Calls :
         /\ (c \in pending /\ timer[c] /\ ~timer'[c] /\ TimerFire(c)) =>
                /\ promise'[c] = RejectedTimeout
                /\ pending' = pending \ {c}
                /\ settleCount'[c] = 1
         /\ promise[c] = RejectedTimeout =>
                /\ promise'[c] = RejectedTimeout
                /\ (sock' = sock /\ ws' = ws /\ messageId' = messageId) =>
                    \A f \in Frames :
                     (f.id = c /\ MessageEvent(f)) =>
                        UNCHANGED <<promise, settleCount, pending, removeCount, timer,
                                    messageId, ws, sock, _connected, _page>>]_vars

\* a call timed out on a connection that is still open, so that a late
\* response for it can arrive
C5_Witness ==
    \E c \in Calls :
        /\ promise[c] = RejectedTimeout
        /\ c \notin pending
        /\ IsConnected

\* C6: whatever the interleaving of response frames, deadline expiry, transport
\* close and disconnect(), a call's promise is resolved or rejected at most once
\* and its entry leaves the pending map at most once.
C6_AtMostOneSettlement ==
    \A c \in Calls : settleCount[c] <= 1 /\ removeCount[c] <= 1

\* a call timed out, then its transport closed and disconnect() ran
C6_Witness ==
    \E i \in 1..Len(sent) :
        /\ promise[sent[i].id] = RejectedTimeout
        /\ sock[sent[i].ws] = "CLOSED"
        /\ ws = 0

\* C7: a connect() that fails -- it throws on an invalid page object, or its
\* new transport errors before opening -- leaves the controller as it was when
\* connect() was entered: same Connected status, same current page, same
\* pending calls, and the established transport is still the current one.
C7_FailedConnectKeepsState ==
    [][/\ lastCall'.op = "connectThrow" =>
            UNCHANGED <<ws, sock, _connected, _page, pending, promise>>
       /\ \A t \in Transports :
            (/\ lastCall.op = "connect" /\ ws = t
             /\ connectP[t] = "pending" /\ connectP'[t] = "rejected") =>
                /\ IsConnected' = lastCall.pre.connected
                /\ _page' = lastCall.pre.page
                /\ pending' = lastCall.pre.pending
                /\ lastCall.pre.connected => ws' = lastCall.pre.ws]_vars

\* C8: a response frame settles exactly the call whose id it carries, with that
\* frame's result or error, and no other call; request frames are emitted in the
\* order in which the ids were assigned.
C8_FrameSettlesItsOwnCall ==
    /\ [][(sock' = sock /\ ws' = ws /\ messageId' = messageId
            /\ (promise' # promise \/ pending # {})) =>
            \A f \in Frames :
                MessageEvent(f) =>
                    /\ \A c \in Calls :
                         promise'[c] # promise[c] =>
                            /\ c = f.id /\ f.kind # "garbage"
                            /\ promise'[c] = FrameOutcome(f)
                    /\ (f.kind # "garbage" /\ f.id \in pending) =>
                         promise'[f.id] = FrameOutcome(f)]_vars
    /\ [](issued = [i \in 1..Len(sent) |-> sent[i].id])

\* the second call was answered while the first is still waiting
C8_Witness ==
    /\ promise[1].st = "unsettled" /\ 1 \in pending
    /\ promise[2].st = "resolved"

\* a tick's reads amount to a stable idle observation with an error or a text
StableWithContent ==
    /\ reads.first = "true" /\ reads.recheck = "true"
    /\ reads.content \in {"error", "text"}

\* C9: waitForReply returns Completed only from a tick that read the idle
\* indicator true both before and after the debounce; a tick whose recheck read
\* false returns nothing and hands over to the loop test (the next tick, or the
\* timeout exit when the time is up).
C9_NoCompletedAfterFlicker ==
    /\ [](outcome.kind = "Completed" =>
            reads.first = "true" /\ reads.recheck = "true")
    /\ [][(pc = "p2_vis2" /\ reads'.recheck = "false") =>
            /\ outcome' = NoOutcome
            /\ pc' = IF now - start < wTimeout THEN "p2_sleep" ELSE "final"]_vars

\* a tick read true, then false after the debounce, with a reply on the page
\* and no banner; waitForReply is polling on
C9_Witness ==
    /\ reads.first = "true" /\ reads.recheck = "false"
    /\ pc = "p2_sleep"
    /\ outcome = NoOutcome
    /\ botText # "" /\ ~hasError /\ bridge

\* C10: waitForReply returns TimedOut exactly from the timeout exit: the elapsed
\* time has reached `timeout` and the last tick made no stable idle observation
\* with a text or an error; its reply is the agent text readable at that moment,
\* or null when there is none; the timeout exit returns nothing else (unless the
\* transport fails), and no tick is begun once the elapsed time has reached
\* `timeout`.
C10_TimedOutOnlyAtTimeout ==
    /\ []((pc = "final" \/ outcome.kind = "TimedOut") =>
            /\ now - start >= wTimeout
            /\ ~StableWithContent)
    /\ [][/\ (outcome.kind = "none" /\ outcome'.kind = "TimedOut") =>
               /\ pc = "final"
               /\ outcome'.reply = IF bridge /\ botText # "" THEN botText ELSE "null"
          /\ (pc = "final" /\ pc' # "final") =>
               outcome'.kind \in {"TimedOut", "Thrown"}
          /\ (pc # "p2_sleep" /\ pc' = "p2_sleep") => now' - start < wTimeout]_vars

\* the long timeout ran out while the agent stayed busy; the text on the page
\* was returned as the best-effort reply
C10_Witness ==
    /\ outcome.kind = "TimedOut"
    /\ outcome.reply = "hi"
    /\ wTimeout = 6000

\* C11: a tick that read the idle indicator true before and after the debounce
\* and whose error check reports a banner returns Failed with the banner's text
\* and the tick's elapsed seconds, without reading the reply, also when a
\* non-empty agent text is on the page; a Failed outcome differs from TimedOut.
C11_ErrorBannerYieldsFailed ==
    /\ [][(/\ pc = "p2_err" /\ pc' # "p2_err" /\ cdpUp /\ now' = now
           /\ bridge /\ hasError) =>
            /\ outcome' = [kind |-> "Failed", reply |-> "", error |-> "banner",
                           elapsed |-> elapsed]
            /\ pc' = "done"
            /\ reads'.content = "error"]_vars
    /\ [](outcome.kind = "Failed" =>
            /\ reads.first = "true" /\ reads.recheck = "true"
            /\ reads.content = "error"
            /\ outcome.error = "banner" /\ outcome.reply = "")
    /\ [](outcome.kind = "TimedOut" => outcome.error = "timeout")

\* Failed was returned while a non-empty agent text could be read
C11_Witness ==
    /\ outcome.kind = "Failed"
    /\ bridge /\ botText # "" /\ hasError
    /\ reads.content = "error"

\* C12: after a debounced stable idle with no error signal the tick returns
\* Completed with the latest agent text if and only if that text is non-empty,
\* whatever the count is compared with the baseline; otherwise it polls on;
\* a Completed outcome never carries an empty reply.
C12_CompletedIffTextNonEmpty ==
    /\ [][(pc = "p2_text" /\ pc' # "p2_text" /\ cdpUp /\ now' = now) =>
            IF bridge /\ botText # ""
            THEN /\ outcome' = [kind |-> "Completed", reply |-> botText, error |-> "",
                                elapsed |-> elapsed]
                 /\ pc' = "done"
            ELSE /\ outcome' = NoOutcome
                 /\ pc' = IF now - start < wTimeout THEN "p2_sleep" ELSE "final"]_vars
    /\ [](outcome.kind = "Completed" => outcome.reply # "")

\* Completed was returned with the count of agent messages equal to the baseline
C12_Witness ==
    /\ outcome.kind = "Completed"
    /\ beforeCount > 0 /\ botCount = beforeCount
    /\ bridge /\ outcome.reply = botText

\* the calls of clickSend that reached the page
Clicks(l) == Cardinality({i \in 1..Len(l) : l[i] \in {"click+", "click-"}})

\* C13: clickSend(retries) calls the submit operation at most `retries` times,
\* an attempt after the first only after a 1000 ms sleep; the first successful
\* attempt is returned and is the last one; the 'not found after retries'
\* failure is returned only after exactly `retries` unsuccessful attempts, as a
\* failure result.
C13_ClickSendRetries ==
    /\ [](Clicks(log) <= retries /\ attempt <= retries)
    /\ [][(pc' = "cs_click" /\ pc # "cs_click") =>
            \/ pc = "cs_first" /\ Clicks(log) = 0
            \/ pc = "cs_sleep" /\ now' = now + 1000 /\ log[Len(log)] = "click-"]_vars
    /\ [][(pc = "cs_click" /\ pc' # "cs_click" /\ cdpUp /\ now' = now
           /\ bridge /\ sendVisible) =>
            /\ pc' = "done" /\ ret' = Ret("ClickOk", "")
            /\ Success(outcome')
            /\ log' = Append(log, "click+")]_vars
    /\ [](ret.kind = "ClickFailed" =>
            /\ pc = "done"
            /\ ret.error = "not found after retries"
            /\ outcome.error = ret.error /\ ~Success(outcome) /\ outcome.kind # "Thrown"
            /\ Clicks(log) = retries
            /\ \A i \in 1..Len(log) : log[i] # "click+")

\* two attempts were asked for and both failed, one second apart
C13_Witness ==
    /\ outcome = ClickExhausted
    /\ retries = 2
    /\ log = <<"click-", "click-">>
    /\ now >= 1000

\* the control points at an awaited callBridge()
NamedCallPcs == CallPcs \ {"cl_key1", "cl_key2", "cl_key3", "cl_key4", "st_insert"}

\* a handler that is between the first and the last step of its orchestration
InOrchestration(r) == what[r] = "send" /\ gpc[r] \in {"focus", "insert", "submit", "wait"}

\* C14: the gateway serializes the send-and-wait requests: while one handler is
\* between the clear and the end of its wait, no other handler is.
C14_OrchestrationsNeverInterleave ==
    \A r1, r2 \in Requests :
        (r1 # r2 /\ InOrchestration(r1)) => ~InOrchestration(r2)

\* C15: every callBridge() of an operation is preceded by its own liveness
\* probe: control reaches a named-operation call only out of an ensureBridge()
\* (the loop test of clickSend lies between the probe and the first attempt).
C15_EveryCallHasItsOwnProbe ==
    [][(pc' \in NamedCallPcs /\ pc' # pc) =>
          \/ pc \in EnsurePcs
          \/ pc = "cs_first"]_vars

\* C16: sendText issues a key event, a text insertion or a submit only after
\* its waitForIdle has read the idle indicator true; when waitForIdle timed out,
\* sendText has returned that failure and nothing has reached the page.
C16_SendTextOnlyWhenIdle ==
    (op = "sendText" /\ pc \notin {"idle", "wi_ensure", "wi_vis", "wi_sleep"}) =>
        \/ reads.first = "true"
        \/ /\ pc = "done"
           /\ log = <<>>
           /\ outcome.kind \in {"IdleTimedOut", "Thrown"}

\* C17: once a call of an operation has failed at transport level, the
\* operation has aborted with that error: it is not polling, retrying or
\* calling on, and it has not returned any other outcome.
C17_TransportFailureAborts ==
    probeFailures > 0 => (pc = "done" /\ outcome = Thrown)

\* C18: waitForIdle sleeps 1000 ms between polls; a poll that reads true returns
\* success at once, and success is returned by nothing else; the timeout failure
\* is returned only when the elapsed time has reached `timeout`, no poll having
\* read true; no poll is started once the elapsed time has reached `timeout`.
C18_WaitForIdlePolls ==
    /\ [][(pc = "wi_vis" /\ pc' # "wi_vis" /\ cdpUp /\ now' = now) =>
            IF bridge /\ sendVisible
            THEN /\ ret' = Ret("IdleOk", "")
                 /\ op = "waitForIdle" => (pc' = "done" /\ outcome' = ret')
            ELSE pc' = "wi_sleep" /\ ret' = ret /\ outcome' = outcome]_vars
    /\ [][(pc' = "wi_ensure" /\ pc # "wi_ensure") =>
            /\ now' - start' < wTimeout'
            /\ pc = "idle" \/ (pc = "wi_sleep" /\ now' - now >= 1000)]_vars
    /\ [][(ret'.kind = "IdleTimedOut" /\ ret.kind # "IdleTimedOut") =>
            /\ now' - start' >= wTimeout'
            /\ pc \in {"idle", "wi_sleep"}
            /\ op' = "waitForIdle" => (pc' = "done" /\ outcome' = ret')]_vars
    /\ [](op = "waitForIdle" =>
            /\ outcome.kind = "IdleOk" <=> reads.first = "true"
            /\ outcome.kind = "IdleTimedOut" => now - start >= wTimeout)
    /\ [](pc \in {"wi_ensure", "wi_vis", "wi_sleep"} => reads.first # "true")

\* waitForIdle(3000) timed out after at least one poll, and the indicator is
\* true by now
C18_Witness ==
    /\ op = "waitForIdle" /\ wTimeout = 3000
    /\ outcome.kind = "IdleTimedOut"
    /\ reads.first = "false"
    /\ now - start >= 3000
    /\ sendVisible /\ bridge

\* C19: in setText a focus call (the one after the clear and the 50 ms settle)
\* that reports failure makes setText return a failure with the focus error,
\* and Input.insertText is not sent; every Input.insertText sent follows
\* directly on a successful focus call that came after the four key events of
\* the clear and the settle delay.
C19_InsertOnlyAfterFocus ==
    /\ [][(/\ pc = "fo_focus" /\ pc' # "fo_focus" /\ cdpUp /\ now' = now
           /\ ~(bridge /\ editor)) =>
            /\ ret' = Ret("SetFailed", IF bridge THEN "no editor" ELSE "focus failed")
            /\ outcome' = ret' /\ pc' = "done"
            /\ log' = Append(log, "focus-")]_vars
    /\ [][(pc' = "fo_ensure" /\ pc # "fo_ensure") =>
            /\ pc = "st_sleep50" /\ now' = now + 50
            /\ Len(log) = 5 /\ \A i \in 2..5 : log[i] = "key"]_vars
    /\ [](\A i \in 1..Len(log) :
            log[i] = "insert" => (i = 7 /\ log[6] = "focus+"))
    /\ [](ret.kind = "SetFailed" => \A i \in 1..Len(log) : log[i] # "insert")

\* the editor was there for the clear and gone for the focus before insertion
C19_Witness ==
    /\ outcome.kind = "SetFailed"
    /\ outcome.error = "no editor"
    /\ log = <<"focus+", "key", "key", "key", "key", "focus-">>

\* C20: when phase 1 runs out its 5000 ms without having read the indicator
\* false, waitForReply returns nothing at that point and goes on to the loop
\* test of phase 2; there a stable idle with a text and no error is Completed.
C20_Phase1IsSoftBound ==
    /\ [][(pc = "p1_sleep" /\ pc' # "p1_sleep" /\ now' - start >= phase1Limit) =>
            /\ outcome' = NoOutcome
            /\ ~sawBusy'
            /\ pc' = IF now' - start < wTimeout THEN "p2_sleep" ELSE "final"]_vars
    /\ [](pc \in {"p1_ensure", "p1_vis", "p1_sleep"} => outcome = NoOutcome)
    /\ []((op = "waitForReply" /\ ~sawBusy /\ pc \notin {"idle", "ensure0", "baseline",
               "p1_ensure", "p1_vis", "p1_sleep"} /\ outcome.kind # "Thrown") =>
            now - start >= phase1Limit)

\* phase 1 never read false and ran out; phase 2 returned Completed
C20_Witness ==
    /\ outcome.kind = "Completed"
    /\ ~sawBusy
    /\ probeFailures = 0
    /\ outcome.reply = "hi"


\* the frames the 'message' handler does not match: unparseable, without an id,
\* or with an id that is not in the pending map
Dropped(f) == f.kind = "garbage" \/ f.id = 0 \/ f.id \notin pending

\* C23: an inbound frame that is unparseable, carries no id, or carries an id
\* that is not in the pending map is dropped silently: it settles no call and
\* leaves the pending map, the timers, the id counter and the Connected status
\* unchanged.
C23_UnmatchedFrameIsDropped ==
    [][(sock' = sock /\ ws' = ws /\ messageId' = messageId) =>
        \A f \in Inbound :
            (Dropped(f) /\ MessageEvent(f)) =>
                /\ UNCHANGED <<promise, settleCount, pending, removeCount, timer>>
                /\ UNCHANGED <<messageId, ws, _connected, _page, sock>>
                /\ IsConnected' = IsConnected]_vars

\* call 1 has been answered and call 2 still waits on a connected controller:
\* a second frame for id 1, a frame without id and an unparseable frame all
\* arrive with an entry in the map that they must not touch
C23_Witness ==
    /\ IsConnected
    /\ pending = {2}
    /\ promise[1].st = "resolved"
    /\ promise[2].st = "unsettled"
    /\ \E f \in Inbound : Dropped(f) /\ f.id = 1
    /\ \E f \in Inbound : f.kind = "garbage"


\* C22: connect() on a controller that already has a transport closes the old
\* transport in the same call that creates the new one, and when the new
\* transport's 'open' resolves connect() the connection is Connected on that
\* transport and the pending map is empty; afterwards every entry of the map
\* was registered on the current transport.
C22_ConnectSupersedes ==
    /\ [][(ws' # ws /\ ws' # 0) =>
            /\ ws # 0 => sock'[ws] \notin {"CONNECTING", "OPEN"}
            /\ sock[ws'] = "NONE" /\ sock'[ws'] = "CONNECTING"
            /\ pending' = {}
            /\ ~IsConnected']_vars
    /\ [][\A t \in Transports :
            (connectP[t] = "pending" /\ connectP'[t] = "resolved") =>
                /\ ws' = t
                /\ IsConnected'
                /\ _page' = sockPage[t]
                /\ pending' = {}]_vars
    /\ [](\A i \in 1..Len(sent) : sent[i].id \in pending => sent[i].ws = ws)

\* call 1 was waiting on transport 1 when connect() replaced it; transport 2
\* has opened and call 2 has been registered on it
C22_Witness ==
    /\ ws = 2 /\ IsConnected
    /\ connectP[2] = "resolved"
    /\ Len(sent) = 2
    /\ sent[1].ws = 1 /\ sent[2].ws = 2
    /\ removeCount[1] = 1 /\ settleCount[1] = 0
    /\ sock[1] = "CLOSING"
    /\ pending = {2}


\* C26: once connect() has superseded an old transport and the new transport
\* has opened, a late 'close' or 'error' event of the old transport touches
\* only the old connection: it rejects and removes no call issued on the new
\* transport and leaves the new connection reporting connected.
C26_LateEventOfOldTransportIsConfined ==
    [][\A t \in Transports :
        (/\ ws # 0 /\ t # ws /\ sock[ws] = "OPEN"
         /\ sock'[t] # sock[t] /\ sock'[t] \in {"CLOSED", "ERRORED"}) =>
            /\ IsConnected' = IsConnected
            /\ pending' = pending
            /\ promise' = promise
            /\ settleCount' = settleCount]_vars


\* C25: every call that send() registered in the pending map is eventually
\* settled (resolved, or rejected by a peer error, by its deadline timer or by
\* closure), whatever responses, timer expiries, remote closes, disconnect()
\* and connect() follow.
C25_EveryRegisteredCallIsSettled ==
    \A c \in Calls : (promise[c].st = "unsettled") ~> (promise[c].st # "unsettled")


\* C27: the AwaitingStart phase of waitForReply never runs past the overall
\* timeout: no poll of phase 1 is begun once timeout milliseconds have passed
\* since the start, so phase 1 is over by min(5000 ms, timeout).
C27_Phase1BoundedByTimeout ==
    (op = "waitForReply" /\ pc = "p1_ensure") =>
        /\ now - start < phase1Limit
        /\ now - start < wTimeout


\* the page shows a finished agent: indicator true, no error banner, a text
IdleWithText == sendVisible /\ ~hasError /\ botText # ""
\* one poll interval and the debounce still fit before the overall timeout
StillFits == now + wPoll + debounce <= start + wTimeout
\* waitForReply has taken its start time and has not returned
Waiting == op = "waitForReply" /\ pc \notin {"idle", "ensure0", "done"}

\* C21: if from some instant of a running waitForReply on the indicator stays
\* true, no error signal is present, the latest agent text is non-empty, and at
\* that instant one poll interval plus the 1500 ms debounce still fit before
\* the overall timeout, then waitForReply eventually returns Completed with
\* that text.
C21_StableIdleIsEventuallyCompleted ==
    []((Waiting /\ StillFits /\ []IdleWithText) =>
          <>(outcome.kind = "Completed" /\ outcome.reply = botText))

\* The same from an instant at which phase 1 is over: there the code does return
\* Completed, so the runs that break C21 are those that spend the budget in phase 1.
Phase1Over == pc \in {"p2_sleep", "p2_ensure1", "p2_vis1", "p2_debounce", "p2_ensure2",
                      "p2_vis2", "p2_err", "p2_text"}
StableIdleAfterPhase1IsCompleted ==
    []((Waiting /\ Phase1Over /\ StillFits /\ []IdleWithText) =>
          <>(outcome.kind = "Completed" /\ outcome.reply = botText))


\* C24: ensureBridge makes the injection call exactly when the liveness probe
\* does not report a present bridge of version 2 (absent, other version, probe
\* error) and never when it reports one; injecting when a version-2 bridge
\* exists reports 'already exists' and leaves the installed object unchanged,
\* so that between two page loads the bridge is installed at most once.
C24_InjectionOnlyWhenProbeSaysAbsent ==
    /\ [][\A k \in Callers :
            (epc[k] = "probe" /\ epc'[k] # "probe") =>
                /\ epc'[k] = "inject" <=> probed'[k] # "present"
                /\ epc'[k] = "idle" <=> probed'[k] = "present"
                /\ probed'[k] = "present" => bridge
                /\ probed'[k] = "absent" => ~bridge
                /\ UNCHANGED <<bridge, foreign, installs>>]_vars
    /\ [][\A k \in Callers :
            injected'[k] \notin {"none", injected[k]} =>
                epc[k] = "inject" /\ probed[k] \in {"absent", "error"}]_vars
    /\ [][\A k \in Callers :
            (epc[k] = "inject" /\ epc'[k] = "idle" /\ bridge) =>
                /\ injected'[k] \in {"exists", "threw"}
                /\ UNCHANGED <<bridge, foreign, installs>>]_vars
    /\ [](installs <= 1)
    /\ [](bridge => ~foreign)

\* a probe that failed although the bridge was there led to an injection call,
\* which found the installed bridge and left it alone; the other caller had
\* installed it over an object of another version
C24_Witness ==
    /\ bridge /\ installs = 1
    /\ probed[1] = "error" /\ injected[1] = "exists"
    /\ probed[2] = "absent" /\ injected[2] = "injected"
    /\ epc[1] = "idle"


\* C28: for every gateway request, over HTTP or WebSocket, the top-level
\* `success` of the response is true only if the InputInjector operation behind
\* it reported success, and the HTTP route and the WebSocket action of the same
\* operation give the same flag for the same result.
C28_TopLevelSuccessMeansSuccess ==
    /\ \A r \in Requests :
         (answer[r].sent /\ answer[r].success) => answer[r].inner
    /\ \A r1, r2 \in Requests :
         (/\ answer[r1].sent /\ answer[r2].sent
          /\ what[r1] = what[r2] /\ answer[r1].inner = answer[r2].inner) =>
             answer[r1].success = answer[r2].success

====
